---- MODULE Spec2Model ----
(***************************************************************************)
(* OptiCalyx: the PSF image-analysis pipeline (services/imageProcessing,   *)
(* held in src/services/geminiService.ts lines 130-342), the interactive   *)
(* 3D viewer (src/components/PSF3DViewer.tsx) and the App component that   *)
(* drives them (held in src/constants.ts lines 23-375).                    *)
(*                                                                         *)
(* Numbers.  JavaScript numbers are modelled by exact rationals:           *)
(*   - a luminosity (r+g+b)/3 is carried as its numerator r+g+b ("...3");  *)
(*   - a centroid is the triple xn/d, yn/d (one common denominator);       *)
(*   - toFixed(k) results are carried as integers scaled by 10^k;          *)
(*   - a quotient that JavaScript evaluates to NaN or Infinity is carried  *)
(*     as such (see Div).                                                  *)
(* Rounding error of IEEE doubles is not modelled.                         *)
(***************************************************************************)
EXTENDS Integers, Sequences, FiniteSets, TLC

VARIABLES
  \* ---- pure-function harness (imageProcessing) ----
  imageData,          \* the ImageData under analysis: [width, height, data]
  ret,                \* the last call made on imageData and what it returned
  \* ---- PSF3DViewer ----
  mounted,            \* is a PSF3DViewer instance mounted
  effect,             \* generation of the live useEffect run (0: none)
  requestRef,         \* requestRef.current
  rafQueue,           \* the host's pending requestAnimationFrame callbacks
  nextHandle,         \* the next handle requestAnimationFrame returns
  angleRef,           \* angleRef.current: [x: elevation, z: azimuth]
  scaleRef,           \* scaleRef.current, in tenths
  zoomDisplay,        \* the zoomDisplay state, in tenths
  isDragging,         \* isDragging.current
  lastMousePosition,  \* lastMousePosition.current
  lastDraw,           \* what the last executed frame callback did
  points,             \* the grid of the live effect run: the buffer it sampled
  \* ---- App ----
  imageFile,          \* the selected file (its name), or "none"
  stats,              \* ProcessingStats state, tagged with the upload it is of
  radialProfile,      \* radialProfile state, tagged likewise
  report,             \* the AnalysisReport shown
  history,            \* the reports of the session
  isProcessing,       \* an external analysis is awaited
  error,              \* "none" (null) or which error message is set
  warning,            \* "none" (null) or which warning is set
  croppedPSF,         \* the data URL of the crop
  croppedImageData,   \* the ImageData of the crop
  isLogView,          \* the tone-mapping mode selected
  canvas,             \* what the hidden processing canvas holds
  sourceImageRef,     \* sourceImageRef.current
  decodes,            \* uploads whose reader.onload / img.onload is pending
  analyses,           \* analyzePSF calls in flight
  uploads             \* number of files selected so far

fnVars == <<imageData, ret>>
viewerVars == <<mounted, effect, requestRef, rafQueue, nextHandle, angleRef,
                scaleRef, zoomDisplay, isDragging, lastMousePosition, lastDraw,
                points>>
appVars == <<imageFile, stats, radialProfile, report, history, isProcessing,
             error, warning, croppedPSF, croppedImageData, isLogView, canvas,
             sourceImageRef, decodes, analyses, uploads>>
vars == <<fnVars, viewerVars, appVars>>

(***************************************************************************)
(* Arithmetic helpers                                                      *)
(***************************************************************************)
Max(a, b) == IF a > b THEN a ELSE b
Min(a, b) == IF a < b THEN a ELSE b
Abs(a) == IF a < 0 THEN -a ELSE a

\* Math.floor(n/d) and Math.ceil(n/d) for d > 0
Floor(n, d) == n \div d
Ceil(n, d) == -((-n) \div d)

RECURSIVE Gcd(_, _)
Gcd(a, b) == IF b = 0 THEN a ELSE Gcd(b, a % b)

\* floor(sqrt(n)) by bisection: lo*lo <= n < hi*hi throughout
RECURSIVE IsqrtIn(_, _, _)
IsqrtIn(n, lo, hi) ==
  IF hi - lo <= 1 THEN lo
  ELSE LET mid == (lo + hi) \div 2
       IN IF mid * mid <= n THEN IsqrtIn(n, mid, hi) ELSE IsqrtIn(n, lo, mid)

Isqrt(n) == IsqrtIn(n, 0, Min(n + 1, 46341))

\* A JavaScript quotient n/d of two non-negative numbers
NaN == [kind |-> "NaN"]
Infinity == [kind |-> "Infinity"]
Div(n, d) ==
  IF d = 0 THEN (IF n = 0 THEN NaN ELSE Infinity)
  ELSE [kind |-> "num", n |-> n, d |-> d]

(***************************************************************************)
(* ImageData                                                               *)
(***************************************************************************)
\* data[idx], data[idx+1], data[idx+2] of the pixel (x, y); alpha is never read
PixelAt(img, x, y) == img.data[y * img.width + x + 1]

\* 3 * intensity, where intensity = (data[idx] + data[idx+1] + data[idx+2]) / 3
Intensity3(p) == p[1] + p[2] + p[3]

(***************************************************************************)
(* calculateCentroid                                                       *)
(***************************************************************************)
CentroidAcc0 == [totalMass3 |-> 0, sumX3 |-> 0, sumY3 |-> 0, maxVal3 |-> 0]

\* the threshold test of the loop body: intensity > maxVal * 0.2
AboveThresholdOrEqual(intensity3, maxVal3) == 5 * intensity3 >= maxVal3
AboveThreshold(intensity3, maxVal3) == 5 * intensity3 > maxVal3

\* one iteration of the inner loop body at (x, y)
CentroidStepSwapped(img, x, y, acc) ==
  LET intensity3 == Intensity3(PixelAt(img, x, y))
      maxVal3 == IF intensity3 > acc.maxVal3 THEN intensity3 ELSE acc.maxVal3
  IN IF AboveThreshold(intensity3, maxVal3)
       THEN [totalMass3 |-> acc.totalMass3 + intensity3,
             sumX3 |-> acc.sumX3 + y * intensity3,
             sumY3 |-> acc.sumY3 + x * intensity3,
             maxVal3 |-> maxVal3]
       ELSE [acc EXCEPT !.maxVal3 = maxVal3]
CentroidStep(img, x, y, acc) ==
  LET intensity3 == Intensity3(PixelAt(img, x, y))
      maxVal3 == IF intensity3 > acc.maxVal3 THEN intensity3 ELSE acc.maxVal3
  IN IF AboveThreshold(intensity3, maxVal3)
       THEN [totalMass3 |-> acc.totalMass3 + intensity3,
             sumX3 |-> acc.sumX3 + x * intensity3,
             sumY3 |-> acc.sumY3 + y * intensity3,
             maxVal3 |-> maxVal3]
       ELSE [acc EXCEPT !.maxVal3 = maxVal3]

\* (the test on acc is always true: it makes TLC evaluate the accumulators at
\* each iteration, as the loop does, instead of nesting width*height thunks)
RECURSIVE CentroidRow(_, _, _, _)
CentroidRow(img, x, y, acc) ==
  IF x >= img.width \/ acc.totalMass3 < 0 THEN acc
  ELSE CentroidRow(img, x + 1, y, CentroidStep(img, x, y, acc))

RECURSIVE CentroidRows(_, _, _)
CentroidRows(img, y, acc) ==
  IF y >= img.height \/ acc.totalMass3 < 0 THEN acc
  ELSE CentroidRows(img, y + 1, CentroidRow(img, 0, y, acc))

\* the value returned when totalMass === 0
CentroidBlankOrigin(img) == [xn |-> 0, yn |-> 0, d |-> 1, maxVal3 |-> 0]
CentroidBlank(img) == [xn |-> img.width, yn |-> img.height, d |-> 2, maxVal3 |-> 0]

\* {x: xn/d, y: yn/d, maxVal: maxVal3/3}
calculateCentroid(img) ==
  LET acc == CentroidRows(img, 0, CentroidAcc0)
  IN IF acc.totalMass3 = 0 THEN CentroidBlank(img)
     ELSE [xn |-> acc.sumX3, yn |-> acc.sumY3, d |-> acc.totalMass3,
           maxVal3 |-> acc.maxVal3]

\* a centre (xn/d, yn/d) in lowest terms
Reduced(c) ==
  LET g == Gcd(Gcd(Abs(c.xn), Abs(c.yn)), c.d)
  IN [xn |-> c.xn \div g, yn |-> c.yn \div g, d |-> c.d \div g]

(***************************************************************************)
(* estimateStats                                                           *)
(***************************************************************************)
StatsAcc0 == [halfMaxCount |-> 0, backgroundSum3 |-> 0, backgroundCount |-> 0]

\* one iteration of the second pass: val > halfMax, val < centroid.maxVal * 0.1
StatsStep(p, maxVal3, acc) ==
  LET val3 == Intensity3(p)
      a1 == IF 2 * val3 > maxVal3
              THEN [acc EXCEPT !.halfMaxCount = @ + 1] ELSE acc
  IN IF 10 * val3 < maxVal3
       THEN [a1 EXCEPT !.backgroundSum3 = @ + val3, !.backgroundCount = @ + 1]
       ELSE a1

RECURSIVE StatsRow(_, _, _, _, _)
StatsRow(img, x, y, maxVal3, acc) ==
  IF x >= img.width \/ acc.halfMaxCount < 0 THEN acc
  ELSE StatsRow(img, x + 1, y, maxVal3, StatsStep(PixelAt(img, x, y), maxVal3, acc))

RECURSIVE StatsRows(_, _, _, _)
StatsRows(img, y, maxVal3, acc) ==
  IF y >= img.height \/ acc.halfMaxCount < 0 THEN acc
  ELSE StatsRows(img, y + 1, maxVal3, StatsRow(img, 0, y, maxVal3, acc))

\* parseFloat((2 * Math.sqrt(halfMaxCount / Math.PI)).toFixed(2)), in hundredths:
\* the nearest integer to sqrt(40000*count/pi), with 160000/pi = 50929.5818
Fwhm100(halfMaxCount) ==
  LET q4 == halfMaxCount * 50929 + (halfMaxCount * 5818) \div 10000
  IN (Isqrt(q4) + 1) \div 2

\* parseFloat((signal / noise).toFixed(1)), in tenths, where bg = bn/(3*bd),
\* signal = maxVal - bg and noise = sqrt(bg + 1):
\* (signal/noise)^2 = (maxVal3*bd - bn)^2 / (3*bd*(bn + 3*bd))
Snr10(maxVal3, bn, bd) ==
  LET sn == maxVal3 * bd - bn
      x == sn * sn
      y == 3 * bd * (bn + 3 * bd)
      q4 == 400 * (x \div y) + (400 * (x % y)) \div y
  IN (Isqrt(q4) + 1) \div 2

\* Math.floor(centroid.maxVal)
PeakIntensityCeil(maxVal3) == (maxVal3 + 2) \div 3
PeakIntensity(maxVal3) == maxVal3 \div 3

estimateStats(img) ==
  LET centroid == calculateCentroid(img)
      acc == StatsRows(img, 0, centroid.maxVal3, StatsAcc0)
      \* bg = backgroundSum / backgroundCount or 0, as bn/(3*bd) in lowest terms
      g == Gcd(acc.backgroundSum3, acc.backgroundCount)
      bn == IF acc.backgroundCount > 0 THEN acc.backgroundSum3 \div g ELSE 0
      bd == IF acc.backgroundCount > 0 THEN acc.backgroundCount \div g ELSE 1
  IN [centroid |-> [xn |-> centroid.xn, yn |-> centroid.yn, d |-> centroid.d],
      fwhm100 |-> Fwhm100(acc.halfMaxCount),
      snr10 |-> Snr10(centroid.maxVal3, bn, bd),
      peakIntensity |-> PeakIntensity(centroid.maxVal3),
      backgroundLevel |-> bn \div (3 * bd)]

(***************************************************************************)
(* calculateRadialProfile                                                  *)
(***************************************************************************)
\* Math.floor(Math.sqrt(dx*dx + dy*dy)) for dx = dxn/d, dy = dyn/d
FloorDistance(dxn, dyn, d) ==
  LET a == dxn \div d
      r == dxn % d
      b == dyn \div d
      s == dyn % d
  IN Isqrt(a * a + b * b + ((2 * a * r + 2 * b * s) * d + r * r + s * s) \div (d * d))

\* one iteration of the pixel loop; bins/counts are indexed from 1
RadialStep(img, x, y, c, maxRadius, acc) ==
  LET binIndex == FloorDistance(x * c.d - c.xn, y * c.d - c.yn, c.d)
  IN IF binIndex < maxRadius
       THEN [bins3 |-> [acc.bins3 EXCEPT ![binIndex + 1] = @ + Intensity3(PixelAt(img, x, y))],
             counts |-> [acc.counts EXCEPT ![binIndex + 1] = @ + 1]]
       ELSE acc

RECURSIVE RadialRow(_, _, _, _, _, _)
RadialRow(img, x, y, c, maxRadius, acc) ==
  IF x >= img.width \/ acc.counts = <<-1>> THEN acc
  ELSE RadialRow(img, x + 1, y, c, maxRadius, RadialStep(img, x, y, c, maxRadius, acc))

RECURSIVE RadialRows(_, _, _, _, _)
RadialRows(img, y, c, maxRadius, acc) ==
  IF y >= img.height \/ acc.counts = <<-1>> THEN acc
  ELSE RadialRows(img, y + 1, c, maxRadius, RadialRow(img, 0, y, c, maxRadius, acc))

\* The returned RadialDataPoint[]: entry i+1 is {radius: i, intensity: avg/peak}.
\* avg = bins[i]/counts[i] or 0, peak = bins[0]/counts[0] or 255, so
\* avg/peak = (bins3[i]*pd) / (counts[i]*pn3) with peak = pn3/(3*pd).
\* idealDiffraction = exp(-0.1*i*i) does not depend on the image and is left out.
calculateRadialProfile(img, centre, maxRadius) ==
  LET c == Reduced(centre)
      acc == RadialRows(img, 0, c, maxRadius,
                        [bins3 |-> [i \in 1..maxRadius |-> 0],
                         counts |-> [i \in 1..maxRadius |-> 0]])
      hasPeak == maxRadius > 0 /\ acc.counts[1] > 0
      pn3 == IF hasPeak THEN acc.bins3[1] ELSE 765
      pd == IF hasPeak THEN acc.counts[1] ELSE 1
  IN [i \in 1..maxRadius |->
        [radius |-> i - 1,
         intensity |-> IF acc.counts[i] > 0
                         THEN Div(acc.bins3[i] * pd, acc.counts[i] * pn3)
                         ELSE Div(0, pn3)]]

(***************************************************************************)
(* checkSaturation                                                         *)
(***************************************************************************)
\* r >= threshold || g >= threshold || b >= threshold, threshold = 250
IsClipped(p) == p[1] >= 250 \/ p[2] >= 250 \/ p[3] >= 250

RECURSIVE SaturationRow(_, _, _, _, _)
SaturationRow(img, x, xEnd, y, saturatedPixels) ==
  IF x > xEnd \/ saturatedPixels < 0 THEN saturatedPixels
  ELSE SaturationRow(img, x + 1, xEnd, y,
         IF x >= 0 /\ x < img.width /\ y >= 0 /\ y < img.height
            /\ IsClipped(PixelAt(img, x, y))
           THEN saturatedPixels + 1 ELSE saturatedPixels)

RECURSIVE SaturationRows(_, _, _, _, _, _)
SaturationRows(img, xStart, xEnd, y, yEnd, saturatedPixels) ==
  IF y > yEnd \/ saturatedPixels < 0 THEN saturatedPixels
  ELSE SaturationRows(img, xStart, xEnd, y + 1, yEnd,
         SaturationRow(img, xStart, xEnd, y, saturatedPixels))

\* the count the loops of checkSaturation accumulate
SaturatedPixels(img, centre, radius) ==
  SaturationRows(img,
    Floor(centre.xn - radius * centre.d, centre.d),
    Ceil(centre.xn + radius * centre.d, centre.d),
    Floor(centre.yn - radius * centre.d, centre.d),
    Ceil(centre.yn + radius * centre.d, centre.d), 0)

checkSaturationAtLeast4(img, centre, radius) == SaturatedPixels(img, centre, radius) >= 4
checkSaturation(img, centre, radius) == SaturatedPixels(img, centre, radius) > 4

(***************************************************************************)
(* Inputs of the image-processing functions                                *)
(***************************************************************************)
MaxPixels == 8         \* small buffers hold at most this many pixels
MaxRadius == 3         \* largest maxRadius / radius argument tried on them
ScenarioSize == 64     \* side of the end-to-end scenario buffer
ScenarioShift == 3     \* the plateau centre is moved by up to this much

Black == <<0, 0, 0>>
Dim == <<10, 10, 10>>
Bright == <<200, 200, 200>>
White == <<255, 255, 255>>
RedClipped == <<250, 0, 0>>
AlmostClipped == <<249, 249, 249>>

\* the two pixel values a small buffer is painted with
Palettes == { <<Black, White>>, <<Dim, Bright>>, <<Black, Dim>>,
              <<AlmostClipped, RedClipped>> }

SmallBuffers ==
  { [width |-> w, height |-> h,
     data |-> [i \in 1..(w * h) |-> IF (i - 1) \in on THEN pal[2] ELSE pal[1]]] :
      <<w, h, on, pal>> \in
        UNION { UNION { { <<w, h, on, pal>> : on \in SUBSET (0..(w * h - 1)),
                                             pal \in Palettes } :
                        h \in { k \in 1..MaxPixels : w * k <= MaxPixels } } :
                w \in 1..MaxPixels } }

\* background bgv everywhere, a 5x5 plateau of value top centred at (px, py)
PlateauBuffer(size, px, py, bgv, top) ==
  [width |-> size, height |-> size,
   data |-> [i \in 1..(size * size) |->
               LET x == (i - 1) % size
                   y == (i - 1) \div size
               IN IF Abs(x - px) <= 2 /\ Abs(y - py) <= 2
                    THEN <<top, top, top>> ELSE <<bgv, bgv, bgv>>]]

ScenarioBuffers ==
  { PlateauBuffer(ScenarioSize, px, py, 10, 200) :
      px \in (32 - ScenarioShift)..(32 + ScenarioShift),
      py \in (32 - ScenarioShift)..(32 + ScenarioShift) }

IsScenario(img) == img.width > MaxPixels

\* centres tried: the buffer's own centroid (as processLocalImage passes it)
\* and, on small buffers, the geometric centre and the corner pixel
Centres(img) ==
  LET c == calculateCentroid(img)
  IN IF IsScenario(img)
       THEN { [xn |-> c.xn, yn |-> c.yn, d |-> c.d] }
       ELSE { [xn |-> c.xn, yn |-> c.yn, d |-> c.d],
              [xn |-> img.width, yn |-> img.height, d |-> 2],
              [xn |-> 0, yn |-> 0, d |-> 1] }

\* maxRadius arguments: small ones on small buffers, the default 64 on the scenario
RadiusArgs(img) == IF IsScenario(img) THEN {64} ELSE 1..MaxRadius
\* radius arguments of checkSaturation: 0..MaxRadius (3 is the default)
SaturationRadiusArgs(img) == IF IsScenario(img) THEN {3} ELSE 0..MaxRadius

(***************************************************************************)
(* The viewer, when no viewer is under study                               *)
(***************************************************************************)
NoDraw == [effect |-> 0, live |-> TRUE]
NoGrid == [effect |-> 0]
ViewerAbsent ==
  /\ mounted = FALSE
  /\ effect = 0
  /\ requestRef = 0
  /\ rafQueue = {}
  /\ nextHandle = 1
  /\ angleRef = [x |-> [p |-> 0, o |-> 80], z |-> 500]
  /\ scaleRef = 12
  /\ zoomDisplay = 12
  /\ isDragging = FALSE
  /\ lastMousePosition = [x |-> 0, y |-> 0]
  /\ lastDraw = NoDraw
  /\ points = NoGrid

(***************************************************************************)
(* The App component as first rendered                                     *)
(***************************************************************************)
Null == [u |-> 0]
AppInitial ==
  /\ imageFile = "none"
  /\ stats = Null
  /\ radialProfile = Null
  /\ report = Null
  /\ history = <<>>
  /\ isProcessing = FALSE
  /\ error = "none"
  /\ warning = "none"
  /\ croppedPSF = Null
  /\ croppedImageData = Null
  /\ isLogView = FALSE
  /\ canvas = Null
  /\ sourceImageRef = Null
  /\ decodes = {}
  /\ analyses = {}
  /\ uploads = 0

(***************************************************************************)
(* Specification of the pure functions: a buffer is chosen, then one of    *)
(* the functions is applied to it.                                         *)
(***************************************************************************)
NoCall == [fn |-> "none"]

InitFn ==
  /\ imageData \in SmallBuffers
  /\ ret = NoCall
  /\ ViewerAbsent
  /\ AppInitial

InitScenario ==
  /\ imageData \in ScenarioBuffers
  /\ ret = NoCall
  /\ ViewerAbsent
  /\ AppInitial

CallCalculateCentroid ==
  /\ ret = NoCall
  /\ ret' = [fn |-> "calculateCentroid", value |-> calculateCentroid(imageData)]
  /\ UNCHANGED <<imageData, viewerVars, appVars>>

CallEstimateStats ==
  /\ ret = NoCall
  /\ ret' = [fn |-> "estimateStats", value |-> estimateStats(imageData)]
  /\ UNCHANGED <<imageData, viewerVars, appVars>>

CallCalculateRadialProfile ==
  /\ ret = NoCall
  /\ \E centre \in Centres(imageData), maxRadius \in RadiusArgs(imageData) :
       ret' = [fn |-> "calculateRadialProfile", centre |-> centre,
               maxRadius |-> maxRadius,
               value |-> calculateRadialProfile(imageData, centre, maxRadius)]
  /\ UNCHANGED <<imageData, viewerVars, appVars>>

CallCheckSaturation ==
  /\ ret = NoCall
  /\ \E centre \in Centres(imageData), radius \in SaturationRadiusArgs(imageData) :
       ret' = [fn |-> "checkSaturation", centre |-> centre, radius |-> radius,
               value |-> checkSaturation(imageData, centre, radius)]
  /\ UNCHANGED <<imageData, viewerVars, appVars>>

NextFn ==
  \/ CallCalculateCentroid
  \/ CallEstimateStats
  \/ CallCalculateRadialProfile
  \/ CallCheckSaturation

SpecFn == InitFn /\ [][NextFn]_vars
SpecScenario == InitScenario /\ [][NextFn]_vars

(***************************************************************************)
(* Claims about the image-processing functions                             *)
(***************************************************************************)
Positions(img) == (0..(img.width - 1)) \X (0..(img.height - 1))
AllBlack(img) == \A i \in 1..(img.width * img.height) : img.data[i] = Black

\* (xn/d, yn/d) is within 1 pixel of (x, y) in both coordinates
Within1(c, x, y) == Abs(c.xn - x * c.d) <= c.d /\ Abs(c.yn - y * c.d) <= c.d

TheScenario == PlateauBuffer(ScenarioSize, 32, 32, 10, 200)

\* C1: on the 64x64 buffer of background 10 with the 5x5 plateau of 200 centred
\* at (32,32), calculateCentroid and estimateStats return a centroid within
\* 1 pixel of (32,32) in x and in y.
C1_ScenarioCentroid ==
  (ret.fn \in {"calculateCentroid", "estimateStats"} /\ imageData = TheScenario)
    => Within1(IF ret.fn = "estimateStats" THEN ret.value.centroid ELSE ret.value,
               32, 32)

\* C2: on an all-zero buffer calculateCentroid returns (W/2, H/2) with maxVal 0
\* and estimateStats returns fwhmPixels 0 and snr 0.
C2_BlankBuffer ==
  AllBlack(imageData) =>
    /\ ret.fn = "calculateCentroid" =>
         /\ 2 * ret.value.xn = imageData.width * ret.value.d
         /\ 2 * ret.value.yn = imageData.height * ret.value.d
         /\ ret.value.maxVal3 = 0
    /\ ret.fn = "estimateStats" =>
         /\ ret.value.fwhm100 = 0
         /\ ret.value.snr10 = 0
         /\ 2 * ret.value.centroid.xn = imageData.width * ret.value.centroid.d
         /\ 2 * ret.value.centroid.yn = imageData.height * ret.value.centroid.d

C2_Witness ==
  /\ AllBlack(imageData) /\ imageData.width = 3 /\ imageData.height = 2
  /\ ret.fn = "estimateStats"

\* the only non-zero pixel of img is at (x0, y0)
SinglePixelAt(img, x0, y0) ==
  \A p \in Positions(img) :
    (Intensity3(PixelAt(img, p[1], p[2])) > 0) <=> (p = <<x0, y0>>)

\* C3: when the buffer is zero except for one pixel at (x0, y0), the centroid
\* is exactly (x0, y0).
C3_SinglePixel ==
  ret.fn = "calculateCentroid" =>
    \A p \in Positions(imageData) :
      SinglePixelAt(imageData, p[1], p[2]) =>
        /\ ret.value.xn = p[1] * ret.value.d
        /\ ret.value.yn = p[2] * ret.value.d

C3_Witness ==
  /\ ret.fn = "calculateCentroid"
  /\ imageData.width = 4 /\ imageData.height = 2
  /\ SinglePixelAt(imageData, 3, 1)
  /\ PixelAt(imageData, 3, 1) = White

\* C4: calculateRadialProfile returns exactly maxRadius entries, with radius
\* 0, 1, ..., maxRadius-1 in order, each with an intensity that is a number >= 0.
C4_ProfileShape ==
  ret.fn = "calculateRadialProfile" =>
    /\ Len(ret.value) = ret.maxRadius
    /\ \A i \in 1..Len(ret.value) :
         /\ ret.value[i].radius = i - 1
         /\ ret.value[i].intensity.kind = "num"
         /\ ret.value[i].intensity.n >= 0
         /\ ret.value[i].intensity.d > 0

\* the pixels of the square [floor(c-r), ceil(c+r)]^2 that lie in the buffer
InSquare(img, c, r) ==
  { p \in Positions(img) :
      /\ p[1] * c.d > c.xn - (r + 1) * c.d /\ p[1] * c.d < c.xn + (r + 1) * c.d
      /\ p[2] * c.d > c.yn - (r + 1) * c.d /\ p[2] * c.d < c.yn + (r + 1) * c.d }

ClippedIn(img, ps) ==
  { p \in ps : \E ch \in 1..3 : PixelAt(img, p[1], p[2])[ch] >= 250 }

\* C5: checkSaturation is true exactly when more than 4 pixels of the square
\* around the centre, clipped to the buffer, have a channel >= 250.
C5_Saturation ==
  ret.fn = "checkSaturation" =>
    ret.value = (Cardinality(ClippedIn(imageData,
                   InSquare(imageData, ret.centre, ret.radius))) > 4)

\* 5 clipped pixels inside the square give true, whatever lies outside it
C5_Witness ==
  /\ ret.fn = "checkSaturation"
  /\ ret.value = TRUE
  /\ LET sq == InSquare(imageData, ret.centre, ret.radius)
     IN /\ Cardinality(ClippedIn(imageData, sq)) = 5
        /\ ClippedIn(imageData, Positions(imageData) \ sq) # {}

(***************************************************************************)
(* PSF3DViewer                                                             *)
(*                                                                         *)
(* Angles.  angleRef.current.x (elevation) is carried as [p, o], meaning   *)
(* p * (PI/2.2) + o/100 with p in {0, 1}: pointer deltas are whole pixels  *)
(* and each adds dy * 0.01, and the upper clamp sets the irrational        *)
(* PI/2.2 = 1.42799..., so every reachable value has this form.            *)
(* angleRef.current.z (azimuth) is in thousandths, the zoom in tenths.     *)
(***************************************************************************)
MaxHandles == 5         \* requestAnimationFrame hands out at most this many handles
MaxAzimuthDrag == 30    \* drags keep the azimuth within this of 0.5 (thousandths)
MaxTiltFloor == 142     \* floor(100 * Math.PI / 2.2)

MouseXs == {0, 3}       \* clientX values of pointer events
MouseYs == {0, 60}      \* clientY values of pointer events
WheelDeltas == {-100, 0, 100}   \* deltaY values of wheel events

Sign(n) == IF n > 0 THEN 1 ELSE IF n < 0 THEN -1 ELSE 0

MaxTilt == [p |-> 1, o |-> 0]     \* Math.PI / 2.2
MinTilt == [p |-> 0, o |-> 20]    \* 0.2
\* e > Math.PI / 2.2 and e < 0.2
ExceedsMaxTilt(e) == IF e.p = 1 THEN e.o > 0 ELSE e.o > MaxTiltFloor
BelowMinTilt(e) == IF e.p = 1 THEN e.o + MaxTiltFloor + 1 <= 20 ELSE e.o < 20

\* Math.max(0.2, Math.min(Math.PI / 2.2, e))
ClampTiltUpperOnly(e) == IF ExceedsMaxTilt(e) THEN MaxTilt ELSE e
ClampTilt(e) ==
  LET m == IF ExceedsMaxTilt(e) THEN MaxTilt ELSE e
  IN IF BelowMinTilt(m) THEN MinTilt ELSE m

\* Math.min(Math.max(0.5, s), 3.0), in tenths
ClampScaleLowerOnly(s) == Max(5, s)
ClampScale(s) == Min(Max(5, s), 30)

\* cancelAnimationFrame(requestRef.current), the effect's cleanup
CleanupFirstHandle(queue) == { cb \in queue : cb.handle # effect }
CleanupNothing(queue) == queue
Cleanup(queue) == { cb \in queue : cb.handle # requestRef }

\* (an effect that starts a new loop but keeps the grid of the previous run)
RunEffectKeepGrid(queue, ctx, ref0, prop) ==
  /\ ctx => nextHandle <= MaxHandles
  /\ IF ctx
       THEN /\ effect' = nextHandle
            /\ points' = IF points = NoGrid
                            THEN [effect |-> nextHandle, buffer |-> prop]
                            ELSE [points EXCEPT !.effect = nextHandle]
            /\ requestRef' = nextHandle
            /\ rafQueue' = queue \cup {[handle |-> nextHandle, effect |-> nextHandle]}
            /\ nextHandle' = nextHandle + 1
       ELSE /\ effect' = 0
            /\ points' = NoGrid
            /\ requestRef' = ref0
            /\ rafQueue' = queue
            /\ UNCHANGED nextHandle

\* The body of the useEffect, run on a queue the previous cleanup has been
\* applied to; ref0 is requestRef.current as the effect finds it.  Without a
\* 2d context it returns before starting a loop; else it builds the grid and
\* requests the first frame.  An effect run is named by the handle of its
\* first request; its grid is sampled from prop, the imageData prop of the
\* render the effect belongs to.
RunEffect(queue, ctx, ref0, prop) ==
  /\ ctx => nextHandle <= MaxHandles
  /\ IF ctx
       THEN /\ effect' = nextHandle
            /\ points' = [effect |-> nextHandle, buffer |-> prop]
            /\ requestRef' = nextHandle
            /\ rafQueue' = queue \cup {[handle |-> nextHandle, effect |-> nextHandle]}
            /\ nextHandle' = nextHandle + 1
       ELSE /\ effect' = 0
            /\ points' = NoGrid
            /\ requestRef' = ref0
            /\ rafQueue' = queue
            /\ UNCHANGED nextHandle

\* App renders <PSF3DViewer imageData={prop}>: a new instance with fresh
\* refs, then its effect
MountViewer(prop) ==
  /\ ~mounted
  /\ mounted' = TRUE
  /\ angleRef' = [x |-> [p |-> 0, o |-> 80], z |-> 500]
  /\ scaleRef' = 12
  /\ zoomDisplay' = 12
  /\ isDragging' = FALSE
  /\ lastMousePosition' = [x |-> 0, y |-> 0]
  /\ \E ctx \in BOOLEAN : RunEffect(rafQueue, ctx, 0, prop)
  /\ UNCHANGED lastDraw

Mount == MountViewer(croppedImageData) /\ UNCHANGED <<fnVars, appVars>>

\* the imageData prop changes to prop: cleanup, then the effect again
ReplaceViewerBuffer(prop) ==
  /\ mounted
  /\ \E ctx \in BOOLEAN :
       RunEffect(IF effect # 0 THEN Cleanup(rafQueue) ELSE rafQueue, ctx,
                 requestRef, prop)
  /\ UNCHANGED <<mounted, angleRef, scaleRef, zoomDisplay, isDragging,
                 lastMousePosition, lastDraw>>

ReplaceBuffer == ReplaceViewerBuffer(croppedImageData) /\ UNCHANGED <<fnVars, appVars>>

\* App stops rendering <PSF3DViewer>: the cleanup of the live effect runs.
\* The instance and its refs are discarded: their variables return to the
\* values they have while no viewer exists.
UnmountViewer ==
  /\ mounted
  /\ mounted' = FALSE
  /\ effect' = 0
  /\ rafQueue' = IF effect # 0 THEN Cleanup(rafQueue) ELSE rafQueue
  /\ requestRef' = 0
  /\ angleRef' = [x |-> [p |-> 0, o |-> 80], z |-> 500]
  /\ scaleRef' = 12
  /\ zoomDisplay' = 12
  /\ isDragging' = FALSE
  /\ lastMousePosition' = [x |-> 0, y |-> 0]
  /\ points' = NoGrid
  /\ UNCHANGED <<nextHandle, lastDraw>>

Unmount == UnmountViewer /\ UNCHANGED <<fnVars, appVars>>

\* The host runs one pending frame callback: animate().  lastDraw records
\* which effect run's grid draw() painted and whether that run was still the
\* live one of a mounted viewer.
animate ==
  /\ nextHandle <= MaxHandles
  /\ \E cb \in rafQueue :
       /\ angleRef' = IF ~isDragging THEN [angleRef EXCEPT !.z = @ + 3] ELSE angleRef
       /\ lastDraw' = [effect |-> cb.effect, live |-> mounted /\ cb.effect = effect]
       /\ requestRef' = nextHandle
       /\ rafQueue' = (rafQueue \ {cb}) \cup {[handle |-> nextHandle, effect |-> cb.effect]}
       /\ nextHandle' = nextHandle + 1
  /\ UNCHANGED <<mounted, effect, scaleRef, zoomDisplay, isDragging,
                 lastMousePosition, points,
                 fnVars, appVars>>

handleMouseDown ==
  /\ mounted
  /\ \E cx \in MouseXs, cy \in MouseYs :
       /\ isDragging' = TRUE
       /\ lastMousePosition' = [x |-> cx, y |-> cy]
  /\ UNCHANGED <<mounted, effect, requestRef, rafQueue, nextHandle, angleRef,
                 scaleRef, zoomDisplay, lastDraw, points,
                 fnVars, appVars>>

\* onMouseUp and onMouseLeave
handleMouseUp ==
  /\ mounted
  /\ isDragging' = FALSE
  /\ UNCHANGED <<mounted, effect, requestRef, rafQueue, nextHandle, angleRef,
                 scaleRef, zoomDisplay, lastMousePosition, lastDraw, points,
                 fnVars, appVars>>

\* handleMouseMove without its early return while no drag is in progress
MouseMoveToUndragged(cx, cy) ==
  LET dx == cx - lastMousePosition.x
      dy == cy - lastMousePosition.y
  IN /\ angleRef' = [z |-> angleRef.z + dx * 10,
                     x |-> ClampTilt([angleRef.x EXCEPT !.o = @ + dy])]
     /\ lastMousePosition' = [x |-> cx, y |-> cy]

MouseMoveTo(cx, cy) ==
  IF ~isDragging
    THEN UNCHANGED <<angleRef, lastMousePosition>>
    ELSE LET dx == cx - lastMousePosition.x
             dy == cy - lastMousePosition.y
         IN /\ angleRef' = [z |-> angleRef.z + dx * 10,
                            x |-> ClampTilt([angleRef.x EXCEPT !.o = @ + dy])]
            /\ lastMousePosition' = [x |-> cx, y |-> cy]

MouseMoveEvent(cx, cy) ==
  /\ mounted
  /\ MouseMoveTo(cx, cy)
  /\ Abs(angleRef'.z - 500) <= MaxAzimuthDrag + 3 * MaxHandles
  /\ UNCHANGED <<mounted, effect, requestRef, rafQueue, nextHandle, scaleRef,
                 zoomDisplay, isDragging, lastDraw, points,
                 fnVars, appVars>>

handleMouseMove == \E cx \in MouseXs, cy \in MouseYs : MouseMoveEvent(cx, cy)

WheelBy(deltaY) ==
  LET delta == -Sign(deltaY)
      newScale == ClampScale(scaleRef + delta)
  IN /\ scaleRef' = newScale
     /\ zoomDisplay' = newScale

WheelEvent(deltaY) ==
  /\ mounted
  /\ WheelBy(deltaY)
  /\ UNCHANGED <<mounted, effect, requestRef, rafQueue, nextHandle, angleRef,
                 isDragging, lastMousePosition, lastDraw, points,
                 fnVars, appVars>>

handleWheel == \E deltaY \in WheelDeltas : WheelEvent(deltaY)

InitViewer ==
  /\ ViewerAbsent
  /\ AppInitial
  /\ imageData = [width |-> 1, height |-> 1, data |-> <<Black>>]
  /\ ret = NoCall

NextViewer ==
  \/ Mount
  \/ ReplaceBuffer
  \/ Unmount
  \/ animate
  \/ handleMouseDown
  \/ handleMouseUp
  \/ handleMouseMove
  \/ handleWheel

SpecViewer == InitViewer /\ [][NextViewer]_vars

(***************************************************************************)
(* Claims about the viewer                                                 *)
(***************************************************************************)
\* C6: the zoom is always within [0.5, 3.0]; a wheel step (deltaY # 0) moves
\* it by exactly 0.1 in the direction of the step, unless that would cross a
\* bound, in which case it is pinned at the bound.
C6_ZoomClamped ==
  /\ [](scaleRef >= 5 /\ scaleRef <= 30)
  /\ [][\A deltaY \in WheelDeltas \ {0} :
          WheelEvent(deltaY) =>
            LET want == scaleRef - Sign(deltaY)
            IN scaleRef' = IF want < 5 THEN 5 ELSE IF want > 30 THEN 30 ELSE want]_vars

C6_Witness == mounted /\ scaleRef = 30 /\ zoomDisplay = 30

\* C7: the elevation is always within [0.2, PI/2.2]; a drag whose delta would
\* push it past a bound leaves it exactly at that bound.
C7_TiltClamped ==
  /\ [](~ExceedsMaxTilt(angleRef.x) /\ ~BelowMinTilt(angleRef.x))
  /\ [][\A cx \in MouseXs, cy \in MouseYs :
          (MouseMoveEvent(cx, cy) /\ isDragging) =>
            LET raw == [angleRef.x EXCEPT !.o = @ + (cy - lastMousePosition.y)]
            IN /\ ExceedsMaxTilt(raw) => angleRef'.x = MaxTilt
               /\ BelowMinTilt(raw) => angleRef'.x = MinTilt
               /\ (~ExceedsMaxTilt(raw) /\ ~BelowMinTilt(raw)) => angleRef'.x = raw]_vars

C7_Witness == mounted /\ isDragging /\ angleRef.x = MaxTilt

\* C8: no frame callback of a torn-down effect run ever executes (draws and
\* reschedules), and none is left pending.
C8_NoFrameAfterTeardown ==
  /\ lastDraw.live
  /\ \A cb \in rafQueue : mounted /\ cb.effect = effect

\* the viewer was torn down after its loop had drawn
C8_Witness == ~mounted /\ lastDraw.effect # 0 /\ rafQueue = {} /\ nextHandle > 2

\* C9: at most one frame callback is pending at any time.
C9_OneLoop == Cardinality(rafQueue) <= 1

\* a loop is running after the effect was re-run on a viewer that had drawn
C9_Witness ==
  /\ mounted /\ Cardinality(rafQueue) = 1
  /\ lastDraw.effect # 0 /\ lastDraw.effect # effect

(***************************************************************************)
(* App: upload, local processing, tone-map toggle, external analysis       *)
(*                                                                         *)
(* Every value derived from an image is tagged [u, file] with the upload   *)
(* (1, 2, ...) and the file it was computed from.  A crop is the record    *)
(* [u, file, log, centre]: the window of the processing canvas (holding    *)
(* upload u) around centre, log-stretched or not; croppedPSF is its data   *)
(* URL and croppedImageData its pixels.                                    *)
(***************************************************************************)
MaxUploads == 3      \* files selected in one session
MaxAnalyses == 2     \* external analyses started in one session

\* the files the user can select, and the pixels each decodes to
Files == {"star", "faint", "saturated"}
ImageOf(file) ==
  CASE file = "star" ->
         [width |-> 3, height |-> 3,
          data |-> <<Dim, Dim, Dim, Dim, Bright, Dim, Dim, Dim, Dim>>]
    [] file = "faint" ->
         [width |-> 3, height |-> 3,
          data |-> <<Black, Black, Black, Black, Dim, Black, Black, Black, Black>>]
    [] file = "saturated" ->
         [width |-> 3, height |-> 3,
          data |-> <<Black, White, Black, White, White, White, Black, White, Black>>]

\* cropImage(canvas, x, y, 256, logMode) on the canvas as it stands
cropImage(canvasNow, centre, applyLogStretch) ==
  [u |-> canvasNow.u, file |-> canvasNow.file, log |-> applyLogStretch,
   centre |-> centre]

\* handleImageUpload: the file input's onChange with a file selected.  The
\* callbacks it registers close over this render's processLocalImage, hence
\* over this render's isLogView.
handleImageUploadApp ==
  /\ uploads < MaxUploads
  /\ \E file \in Files :
       /\ imageFile' = file
       /\ decodes' = decodes \cup {[u |-> uploads + 1, file |-> file,
                                    stage |-> "reading", isLogView |-> isLogView]}
  /\ uploads' = uploads + 1
  /\ error' = "none"
  /\ warning' = "none"
  /\ stats' = Null
  /\ report' = Null
  /\ croppedPSF' = Null
  /\ croppedImageData' = Null
  /\ radialProfile' = Null
  /\ UNCHANGED <<history, isProcessing, isLogView, canvas, sourceImageRef,
                 analyses, fnVars>>

\* ... with the <PSF3DViewer> left out of the picture
handleImageUpload == handleImageUploadApp /\ UNCHANGED viewerVars

\* reader.onload: creates the Image and sets its src
readerOnload ==
  /\ \E d \in decodes :
       /\ d.stage = "reading"
       /\ decodes' = (decodes \ {d}) \cup {[d EXCEPT !.stage = "decoding"]}
  /\ UNCHANGED <<imageFile, stats, radialProfile, report, history, isProcessing,
                 error, warning, croppedPSF, croppedImageData, isLogView, canvas,
                 sourceImageRef, analyses, uploads, fnVars, viewerVars>>

\* processLocalImage(img), called with the isLogView its closure captured
processLocalImage(d) ==
  LET img == ImageOf(d.file)
      calculatedStats == estimateStats(img)
      isSaturated == checkSaturation(img, calculatedStats.centroid, 3)
      drawn == [u |-> d.u, file |-> d.file]
  IN /\ canvas' = drawn
     /\ stats' = [u |-> d.u, file |-> d.file, value |-> calculatedStats]
     /\ warning' = IF isSaturated THEN "saturated" ELSE warning
     /\ IF calculatedStats.peakIntensity < 20
          THEN /\ error' = "signal"
               /\ UNCHANGED <<radialProfile, croppedPSF, croppedImageData>>
          ELSE IF calculatedStats.snr10 < 30
          THEN /\ error' = "snr"
               /\ UNCHANGED <<radialProfile, croppedPSF, croppedImageData>>
          ELSE /\ radialProfile' =
                    [u |-> d.u, file |-> d.file,
                     value |-> calculateRadialProfile(img, calculatedStats.centroid, 64)]
               \* generatePreview(img, calculatedStats, isLogView)
               /\ croppedPSF' = cropImage(drawn, calculatedStats.centroid, d.isLogView)
               /\ croppedImageData' = cropImage(drawn, calculatedStats.centroid, d.isLogView)
               /\ UNCHANGED error

\* img.onload: sourceImageRef.current = img; processLocalImage(img)
imgOnloadApp ==
  /\ \E d \in decodes :
       /\ d.stage = "decoding"
       /\ decodes' = decodes \ {d}
       /\ sourceImageRef' = [u |-> d.u, file |-> d.file]
       /\ processLocalImage(d)
  /\ UNCHANGED <<imageFile, report, history, isProcessing, isLogView, analyses,
                 uploads, fnVars>>

imgOnload == imgOnloadApp /\ UNCHANGED viewerVars

\* The LIN/LOG button (rendered only when croppedPSF && stats) and the effect
\* on [isLogView] that follows the render: generatePreview on the canvas as it
\* stands, around the centroid of the stats as they stand.
toggleLogViewApp ==
  /\ croppedPSF # Null /\ stats # Null
  /\ isLogView' = ~isLogView
  /\ IF sourceImageRef # Null /\ stats # Null
       THEN /\ croppedPSF' = cropImage(canvas, stats.value.centroid, ~isLogView)
            /\ croppedImageData' = cropImage(canvas, stats.value.centroid, ~isLogView)
       ELSE UNCHANGED <<croppedPSF, croppedImageData>>
  /\ UNCHANGED <<imageFile, stats, radialProfile, report, history, isProcessing,
                 error, warning, canvas, sourceImageRef, decodes, analyses,
                 uploads, fnVars>>

toggleLogView == toggleLogViewApp /\ UNCHANGED viewerVars

\* the run button is rendered with disabled={!croppedPSF || isProcessing || !!error}
RunButtonEnabled == croppedPSF # Null /\ ~isProcessing /\ error = "none"

\* handleRunAnalysis up to its await: the call carries this render's croppedPSF
handleRunAnalysis ==
  /\ RunButtonEnabled
  /\ Len(history) + Cardinality(analyses) < MaxAnalyses
  /\ croppedPSF # Null
  /\ isProcessing' = TRUE
  /\ error' = "none"
  /\ analyses' = analyses \cup {[payload |-> croppedPSF]}
  /\ UNCHANGED <<imageFile, stats, radialProfile, report, history, warning,
                 croppedPSF, croppedImageData, isLogView, canvas, sourceImageRef,
                 decodes, uploads, fnVars, viewerVars>>

\* analyzePSF resolves: setReport, setHistory, finally setIsProcessing(false)
analysisResolves ==
  /\ \E a \in analyses :
       /\ analyses' = analyses \ {a}
       /\ report' = [u |-> a.payload.u, payload |-> a.payload]
       /\ history' = Append(history, [u |-> a.payload.u, payload |-> a.payload])
  /\ isProcessing' = FALSE
  /\ UNCHANGED <<imageFile, stats, radialProfile, error, warning, croppedPSF,
                 croppedImageData, isLogView, canvas, sourceImageRef, decodes,
                 uploads, fnVars, viewerVars>>

\* analyzePSF throws, in a handler whose try has no finally: setError only
analysisRejectsNoFinally ==
  /\ \E a \in analyses : analyses' = analyses \ {a}
  /\ error' = "analysis"
  /\ UNCHANGED <<imageFile, stats, radialProfile, report, history, warning,
                 isProcessing, croppedPSF, croppedImageData, isLogView, canvas,
                 sourceImageRef, decodes, uploads, fnVars, viewerVars>>

\* analyzePSF throws: setError, finally setIsProcessing(false)
analysisRejects ==
  /\ \E a \in analyses : analyses' = analyses \ {a}
  /\ error' = "analysis"
  /\ isProcessing' = FALSE
  /\ UNCHANGED <<imageFile, stats, radialProfile, report, history, warning,
                 croppedPSF, croppedImageData, isLogView, canvas, sourceImageRef,
                 decodes, uploads, fnVars, viewerVars>>

InitApp ==
  /\ AppInitial
  /\ ViewerAbsent
  /\ imageData = [width |-> 1, height |-> 1, data |-> <<Black>>]
  /\ ret = NoCall

NextApp ==
  \/ handleImageUpload
  \/ readerOnload
  \/ imgOnload
  \/ toggleLogView
  \/ handleRunAnalysis
  \/ analysisResolves
  \/ analysisRejects

SpecApp == InitApp /\ [][NextApp]_vars

\* The promise analyzePSF returns settles (the mock after its 2 s timer, the
\* API call with a response or an error) and the continuation of
\* handleRunAnalysis then runs: a pending completion is eventually taken.
SpecAppFair == SpecApp /\ WF_vars(analysisResolves \/ analysisRejects)

(***************************************************************************)
(* Claims about App                                                        *)
(***************************************************************************)
FailsValidation(st) == st.value.peakIntensity < 20 \/ st.value.snr10 < 30

\* C10: while the stats shown are those of an image with peakIntensity < 20 or
\* snr < 3, an error is set, neither the radial profile nor the crop published
\* is of that image, and the diagnosis cannot be started.
C10_InvalidImageBlocks ==
  (stats # Null /\ FailsValidation(stats)) =>
    /\ error # "none"
    /\ radialProfile.u # stats.u
    /\ croppedPSF.u # stats.u
    /\ croppedImageData.u # stats.u
    /\ ~RunButtonEnabled

\* the preview and the FWHM / SNR / Pic rows are rendered only when
\* croppedPSF && stats
StatsPanelShown == croppedPSF # Null /\ stats # Null

\* C11: when the processed image fails validation (peakIntensity < 20 or
\* snr < 3) its stats are still computed (they are the estimateStats of that
\* image) and displayed (the stats panel is rendered).
C11_FailedStatsDisplayed ==
  (stats # Null /\ FailsValidation(stats)) =>
    /\ stats.value = estimateStats(ImageOf(stats.file))
    /\ StatsPanelShown

\* checkSaturation(imageData, centroid.x, centroid.y) as processLocalImage calls it
IsSaturatedFile(file) ==
  checkSaturation(ImageOf(file), estimateStats(ImageOf(file)).centroid, 3)

\* C12: whenever img.onload processes an image for which checkSaturation is
\* true, the warning is set, the radial profile and the crop of that image are
\* published, and the diagnosis is left startable (a crop to send, no error).
C12_SaturationNotFatal ==
  [][\A d \in decodes :
       (d.stage = "decoding" /\ decodes' = decodes \ {d} /\ IsSaturatedFile(d.file)) =>
         /\ warning' = "saturated"
         /\ radialProfile'.u = d.u
         /\ croppedPSF'.u = d.u
         /\ croppedImageData'.u = d.u
         /\ error' = "none"]_vars

\* stats and radial profile as computed from scratch from the decoded image src
StatsOf(src) ==
  [u |-> src.u, file |-> src.file, value |-> estimateStats(ImageOf(src.file))]
RadialProfileOf(src) ==
  [u |-> src.u, file |-> src.file,
   value |-> calculateRadialProfile(ImageOf(src.file),
                                    estimateStats(ImageOf(src.file)).centroid, 64)]

\* C15: stats and radial profile are recomputed from scratch when a new source
\* image (one that passes validation) is loaded and when the tone-mapping mode
\* is toggled: after either step both are the values computed from the source
\* image of that moment.
C15_Recomputed ==
  [][/\ \A d \in decodes :
          (d.stage = "decoding" /\ decodes' = decodes \ {d}
             /\ ~FailsValidation(StatsOf(d))) =>
            (stats' = StatsOf(d) /\ radialProfile' = RadialProfileOf(d))
     /\ (isLogView' # isLogView) =>
            (stats' = StatsOf(sourceImageRef)
               /\ radialProfile' = RadialProfileOf(sourceImageRef))]_vars

(***************************************************************************)
(* cropImage: the log stretch                                              *)
(*                                                                         *)
(* data[i] = constant * Math.log(1 + data[i]) with                         *)
(* constant = 255 / Math.log(256), stored into a Uint8ClampedArray, which  *)
(* rounds to the nearest integer.  Logarithms are carried in fixed point,  *)
(* FixOne to the unit: for n = 2^e * m with 1 <= m < 2,                    *)
(*   ln n = e * ln 2 + 2 * atanh((m - 1) / (m + 1)),                       *)
(* the atanh by its series up to z^13 / 13 (z <= 1/3).  The one exact tie, *)
(* 255 * ln 16 / ln 256 = 127.5, is stored as 128 (ties go to even).       *)
(***************************************************************************)
FixOne == 1048576

\* a * b / FixOne for 0 <= a, b <= FixOne, without leaving 32 bits
MulFix(a, b) == ((a \div 1024) * b) \div 1024 + ((a % 1024) * b) \div FixOne

RECURSIVE AtanhTerms(_, _, _)
\* zk / k + zk * z^2 / (k + 2) + ... up to the term in z^13
AtanhTerms(zk, z2, k) ==
  IF k > 13 THEN 0 ELSE zk \div k + AtanhTerms(MulFix(zk, z2), z2, k + 2)
Atanh(z) == AtanhTerms(z, MulFix(z, z), 1)

\* Math.log(2)
Ln2 == 2 * Atanh(FixOne \div 3)

RECURSIVE Exponent(_)
\* the e with 2^e <= n < 2^(e+1)
Exponent(n) == IF n < 2 THEN 0 ELSE 1 + Exponent(n \div 2)

\* Math.log(n) for 1 <= n <= 256
Ln(n) ==
  LET e == Exponent(n)
      pow == 2 ^ e
  IN e * Ln2 + 2 * Atanh(((n - pow) * FixOne) \div (n + pow))

\* one channel through the stretch, truncated instead of rounded
StretchChannelTruncated(v) == (255 * Ln(1 + v)) \div Ln(256)
\* one channel through the stretch, as stored in the 8-bit buffer
StretchChannel(v) == (255 * Ln(1 + v) + Ln(256) \div 2) \div Ln(256)

\* the loop over data: R, G and B of every pixel, alpha untouched
LogStretch(img) ==
  [img EXCEPT !.data = [i \in 1..Len(img.data) |->
                          [ch \in 1..3 |-> StretchChannel(img.data[i][ch])]]]

MaxStretches == 2    \* times the stretch is applied to a buffer in a row

\* 1x1 crops whose pixel holds two neighbouring channel values and a third
StretchInputs ==
  { [width |-> 1, height |-> 1, data |-> << <<v, Min(v + 1, 255), 255 - v>> >>] :
      v \in 0..255 }

InitStretch ==
  /\ imageData \in StretchInputs
  /\ ret = NoCall
  /\ ViewerAbsent
  /\ AppInitial

\* the applyLogStretch branch of cropImage on imageData, then on its own output
CallLogStretch ==
  /\ IF ret = NoCall
       THEN ret' = [fn |-> "logStretch", times |-> 1, input |-> imageData,
                    value |-> LogStretch(imageData)]
       ELSE /\ ret.times < MaxStretches
            /\ ret' = [fn |-> "logStretch", times |-> ret.times + 1,
                       input |-> ret.value, value |-> LogStretch(ret.value)]
  /\ UNCHANGED <<imageData, viewerVars, appVars>>

SpecStretch == InitStretch /\ [][CallLogStretch]_vars

\* the channels of the one pixel of a 1x1 buffer
ChannelsOf(img) == img.data[1]
StretchedOnce == ret.fn = "logStretch" /\ ret.times = 1
StretchedTwice == ret.fn = "logStretch" /\ ret.times = 2

\* stretch is non-decreasing and maps 0 to 0 and 255 to 255
StretchMonotoneWithEnds ==
  StretchedOnce =>
    \A a, b \in 1..3 :
      LET in == ChannelsOf(ret.input)
          out == ChannelsOf(ret.value)
      IN /\ in[a] <= in[b] => out[a] <= out[b]
         /\ in[a] = 0 => out[a] = 0
         /\ in[a] = 255 => out[a] = 255

\* C17 as stated: the stretch is monotonically (weakly) increasing over
\* 0..255, has fixed points 0 and 255, and stretch(stretch(x)) # stretch(x)
\* for every x with 0 < x < 255.
C17_StretchAsStated ==
  /\ StretchMonotoneWithEnds
  /\ StretchedTwice =>
       \A ch \in 1..3 :
         (0 < ChannelsOf(imageData)[ch] /\ ChannelsOf(imageData)[ch] < 255) =>
           ChannelsOf(ret.value)[ch] # ChannelsOf(ret.input)[ch]

\* C17 amended: the stretch is non-decreasing over 0..255, its only fixed
\* points are 0 and 255 (every other value is raised), and
\* stretch(stretch(x)) # stretch(x) for every x with 0 < x < 253; 253 and 254
\* are stretched to 255, which a second stretch leaves at 255.
C17_Stretch ==
  /\ StretchMonotoneWithEnds
  /\ StretchedOnce =>
       \A ch \in 1..3 :
         LET v == ChannelsOf(ret.input)[ch]
         IN /\ (0 < v /\ v < 255) => ChannelsOf(ret.value)[ch] > v
            /\ v \in {253, 254} => ChannelsOf(ret.value)[ch] = 255
  /\ StretchedTwice =>
       \A ch \in 1..3 :
         LET v == ChannelsOf(imageData)[ch]
         IN /\ (0 < v /\ v < 253) =>
                 ChannelsOf(ret.value)[ch] # ChannelsOf(ret.input)[ch]
            /\ v \in {253, 254} =>
                 ChannelsOf(ret.value)[ch] = ChannelsOf(ret.input)[ch]

\* 252 goes to 254 and then to 255, while 253 goes to 255 and stays there
C17_Witness ==
  /\ StretchedTwice
  /\ ChannelsOf(imageData) = <<252, 253, 3>>
  /\ ChannelsOf(ret.input) = <<254, 255, 64>>
  /\ ChannelsOf(ret.value)[1] = 255
  /\ ChannelsOf(ret.value)[2] = 255

(***************************************************************************)
(* estimateStats on every small buffer and on the end-to-end scenario      *)
(***************************************************************************)
\* two-pixel buffers whose peak is barely above black: a grey (v,v,v) or a
\* single-channel (v,0,0) pixel beside a black or an equal one
FaintBuffers ==
  { [width |-> 2, height |-> 1, data |-> <<IF twin THEN px ELSE Black, px>>] :
      <<twin, px>> \in BOOLEAN \X UNION { {<<v, v, v>>, <<v, 0, 0>>} : v \in 1..9 } }

InitStats ==
  /\ imageData \in SmallBuffers \cup FaintBuffers \cup {TheScenario}
  /\ ret = NoCall
  /\ ViewerAbsent
  /\ AppInitial

SpecStats == InitStats /\ [][CallEstimateStats]_vars

\* three times the largest mean-RGB luminosity in the buffer
MaxLuminosity3(img) ==
  LET ls == { Intensity3(PixelAt(img, p[1], p[2])) : p \in Positions(img) }
  IN CHOOSE m \in ls : \A l \in ls : l <= m

\* C18: estimateStats reports peakIntensity = floor of the largest mean-RGB
\* luminosity and a finite snr (a number: the noise it divides by is never 0),
\* non-zero whenever the peak is non-zero; on the 64x64 plateau scenario the
\* peak is 200 and the snr is finite and non-zero.
C18_PeakAndSnr ==
  ret.fn = "estimateStats" =>
    LET m3 == MaxLuminosity3(imageData)
    IN /\ 3 * ret.value.peakIntensity <= m3
       /\ m3 < 3 * (ret.value.peakIntensity + 1)
       /\ ret.value.snr10 \in Nat
       /\ ret.value.peakIntensity # 0 => ret.value.snr10 > 0
       /\ imageData = TheScenario =>
            (ret.value.peakIntensity = 200 /\ ret.value.snr10 > 0)

\* the scenario: peak 200 over background 10, snr = 190 / sqrt(11) = 57.3
C18_Witness ==
  /\ imageData = TheScenario
  /\ ret.fn = "estimateStats"
  /\ ret.value.peakIntensity = 200
  /\ ret.value.snr10 = 573

(***************************************************************************)
(* calculateCentroid on the small buffers and on buffers holding pixels at *)
(* exactly 20% of the peak                                                 *)
(***************************************************************************)
Fifth == <<51, 51, 51>>     \* exactly 20% of White

ThresholdBuffers ==
  { [width |-> w, height |-> h,
     data |-> [i \in 1..(w * h) |-> IF (i - 1) \in on THEN White ELSE Fifth]] :
      <<w, h, on>> \in
        UNION { UNION { { <<w, h, on>> : on \in SUBSET (0..(w * h - 1)) } :
                        h \in { k \in 1..MaxPixels : w * k <= MaxPixels } } :
                w \in 1..MaxPixels } }

InitCentroid ==
  /\ imageData \in SmallBuffers \cup ThresholdBuffers
  /\ ret = NoCall
  /\ ViewerAbsent
  /\ AppInitial

SpecCentroid == InitCentroid /\ [][CallCalculateCentroid]_vars

\* three times the luminosity at position p
LuminosityAt3(img, p) == Intensity3(PixelAt(img, p[1], p[2]))

\* the positions scanned no later than p in row-major order, p included
ScannedUpTo(img, p) ==
  { q \in Positions(img) : q[2] < p[2] \/ (q[2] = p[2] /\ q[1] <= p[1]) }

\* the pixels strictly brighter than 20% of the brightest pixel scanned so far
Contributors(img) ==
  { p \in Positions(img) :
      \A q \in ScannedUpTo(img, p) : 5 * LuminosityAt3(img, p) > LuminosityAt3(img, q) }

RECURSIVE WeightedSum(_, _, _)
\* the sum over the positions ps of luminosity (k = 0), x * luminosity (k = 1)
\* or y * luminosity (k = 2)
WeightedSum(img, ps, k) ==
  IF ps = {} THEN 0
  ELSE LET p == CHOOSE q \in ps : TRUE
       IN (IF k = 0 THEN 1 ELSE p[k]) * LuminosityAt3(img, p)
            + WeightedSum(img, ps \ {p}, k)

Mirrored(img) ==
  [img EXCEPT !.data = [i \in 1..Len(img.data) |->
     img.data[((i - 1) \div img.width) * img.width
                + (img.width - 1 - ((i - 1) % img.width)) + 1]]]

BinPixels(img, c, i) ==
  { p \in Positions(img) :
      LET r == Reduced(c)
          q == (p[1] * r.d - r.xn) * (p[1] * r.d - r.xn)
                 + (p[2] * r.d - r.yn) * (p[2] * r.d - r.yn)
      IN i * i * r.d * r.d <= q /\ q < (i + 1) * (i + 1) * r.d * r.d }

\* C20: each pixel at distance d < R of the centre falls in bin floor(d) and no
\* other pixel is counted; an entry's intensity is its bin's mean luminosity
\* divided by the reference (the mean of bin 0, or 255 if bin 0 is empty); a
\* bin with no pixels reports intensity 0; bin 0 reports exactly 1 whenever it
\* is non-empty with positive mean.
C20_RadialBins ==
  ret.fn = "calculateRadialProfile" =>
    LET bin0 == BinPixels(imageData, ret.centre, 0)
        \* the reference, as ref3 / (3 * refn)
        ref3 == IF bin0 # {} THEN WeightedSum(imageData, bin0, 0) ELSE 765
        refn == IF bin0 # {} THEN Cardinality(bin0) ELSE 1
    IN \A i \in 0..(ret.maxRadius - 1) :
         LET bin == BinPixels(imageData, ret.centre, i)
             sum3 == WeightedSum(imageData, bin, 0)
             out == ret.value[i + 1].intensity
         IN /\ ret.value[i + 1].radius = i
            /\ bin = {} => (out.kind = "num" /\ out.n = 0)
            /\ (bin # {} /\ ref3 # 0) =>
                 /\ out.kind = "num"
                 /\ out.n * (Cardinality(bin) * ref3) = out.d * (sum3 * refn)
            /\ (i = 0 /\ bin # {} /\ sum3 > 0) => (out.kind = "num" /\ out.n = out.d)

(***************************************************************************)
(* App together with the <PSF3DViewer> it renders                          *)
(*                                                                         *)
(* The viewer is rendered iff croppedImageData is set, with it as the      *)
(* imageData prop.  The render that follows a handler mounts it, hands it  *)
(* the new buffer (every setCroppedImageData(result.imageData) is a new    *)
(* object, so the effect runs again) or unmounts it.  The external         *)
(* analysis touches neither the crop nor the viewer and is left out, and   *)
(* of the gestures the wheel, kept near the initial zoom, stands for all.  *)
(***************************************************************************)
MaxZoomSpan == 1     \* wheel steps away from the initial zoom

\* the render after a handler that may have changed croppedImageData
Render ==
  IF croppedImageData' = Null
    THEN IF mounted THEN UnmountViewer ELSE UNCHANGED viewerVars
    ELSE IF ~mounted THEN MountViewer(croppedImageData')
    ELSE IF croppedImageData' # croppedImageData
           THEN ReplaceViewerBuffer(croppedImageData')
           ELSE UNCHANGED viewerVars

handleImageUploadRendered == handleImageUploadApp /\ Render
imgOnloadRendered == imgOnloadApp /\ Render
\* the toggle always sets a new crop, equal in content to the last or not
toggleLogViewRendered ==
  /\ toggleLogViewApp
  /\ ReplaceViewerBuffer(croppedImageData')

handleWheelNear == handleWheel /\ Abs(scaleRef' - 12) <= MaxZoomSpan

NextSession ==
  \/ handleImageUploadRendered
  \/ readerOnload
  \/ imgOnloadRendered
  \/ toggleLogViewRendered
  \/ animate
  \/ handleWheelNear

SpecSession == InitApp /\ [][NextSession]_vars

(***************************************************************************)
(* Claims about App and its viewer                                         *)
(***************************************************************************)
\* angleRef and scaleRef of a freshly mounted viewer: elevation 0.8,
\* azimuth 0.5, zoom 1.2
InitialProjection == <<[x |-> [p |-> 0, o |-> 80], z |-> 500], 12>>

\* C13: a tone-map toggle changes none of azimuth, elevation and zoom, and
\* when the crop of a wholly new source image arrives the three are at their
\* initial values (0.5, 0.8, 1.2).
C13_ProjectionState ==
  [][/\ (isLogView' # isLogView) => (<<angleRef, scaleRef>>' = <<angleRef, scaleRef>>)
     /\ (croppedImageData' # Null /\ croppedImageData'.u # croppedImageData.u) =>
          (<<angleRef, scaleRef>>' = InitialProjection)]_vars

\* C14: when a structurally different cropped buffer arrives (new image or
\* toggle) and the effect gets its 2d context, a new effect run builds its grid
\* from that buffer; the live grid is always the one built from the current
\* buffer; and every frame is drawn by the live run, from that grid.
C14_GridRebuilt ==
  /\ []((mounted /\ effect # 0) =>
          points = [effect |-> effect, buffer |-> croppedImageData])
  /\ [][/\ (croppedImageData' # Null /\ croppedImageData' # croppedImageData
              /\ effect' # 0) =>
             (effect' # effect /\ points' = [effect |-> effect', buffer |-> croppedImageData'])
        /\ (nextHandle' # nextHandle /\ effect' = effect) =>
             (lastDraw'.live /\ lastDraw'.effect = points.effect
                /\ points.buffer = croppedImageData)]_vars

\* a frame drawn from the grid rebuilt for the log-stretched crop
C14_Witness ==
  /\ mounted /\ effect # 0
  /\ croppedImageData # Null /\ croppedImageData.log
  /\ points.buffer = croppedImageData
  /\ lastDraw.live /\ lastDraw.effect = effect

\* C16: whenever a crop is published and no upload callback is pending, the
\* buffer the viewer's grid samples and the payload the diagnosis would send
\* are the same crop, and that crop is log-stretched iff the log view is the
\* selected mode.
C16_CropConsistent ==
  (croppedPSF # Null /\ decodes = {}) =>
    /\ croppedImageData = croppedPSF
    /\ (mounted /\ effect # 0) => points.buffer = croppedPSF
    /\ croppedPSF.log = isLogView

(***************************************************************************)
(* PSF3DViewer: the grid sampled by the effect and the second wireframe    *)
(* pass of draw.  A height z = (r + g + b) / (3 * 255) is kept as the      *)
(* integer z765 = r + g + b = 765 * z, a hue as 765 * hue.                 *)
(***************************************************************************)
gridSize == 32

\* getColor(n): hue = 240 - n * 210, `hsl(${hue}, 100%, 60%)`
getColor(z765) == [fn |-> "hsl", args |-> <<240 * 765 - z765 * 210, 100, 60>>]

\* 'rgba(46, 54, 94, 0.5)', the alpha in tenths
NoiseTint == [fn |-> "rgba", args |-> <<46, 54, 94, 5>>]

\* points[y][x] of the effect: the pixel at (floor(min(x * stepX, width - 1)),
\* floor(min(y * stepY, height - 1))), its height and the colour of its height
GridPoints(img) ==
  [y \in 0..gridSize |->
    [x \in 0..gridSize |->
      LET px == Min((x * img.width) \div gridSize, img.width - 1)
          py == Min((y * img.height) \div gridSize, img.height - 1)
          z765 == Intensity3(PixelAt(img, px, py))
      IN [x |-> x - gridSize \div 2, y |-> y - gridSize \div 2,
          z765 |-> z765, color |-> getColor(z765)]]]

\* the context's strokeStyle and lineWidth at ctx.stroke() of the segment from
\* points[y][x] to points[y+1][x]
VerticalStroke(pts, x, y) ==
  LET p1 == pts[y][x]
      p2 == pts[y + 1][x]
      maxSegmentZ == Max(p1.z765, p2.z765)
  IN [strokeStyle |-> IF 10 * maxSegmentZ < 765 THEN NoiseTint ELSE p2.color,
      lineWidth |-> IF 2 * maxSegmentZ > 765 THEN 2 ELSE 1]

\* the strokes of the vertical pass, by segment
VerticalPass(pts) ==
  [s \in (0..gridSize) \X (0..(gridSize - 1)) |-> VerticalStroke(pts, s[1], s[2])]

MaxWireHeight == 3

\* grey levels on either side of z = 0.1 (25.5) and z = 0.5 (127.5)
WireLevels == {0, 25, 26, 127, 128, 255}

\* one-pixel-wide buffers, of grey pixels or of one red-only pixel over grey
WireBuffers ==
  UNION { { [width |-> 1, height |-> h,
             data |-> [i \in 1..h |-> IF i = 1 /\ red THEN <<lv[i], 0, 0>>
                                       ELSE <<lv[i], lv[i], lv[i]>>]] :
              <<lv, red>> \in [1..h -> WireLevels] \X BOOLEAN } :
          h \in 1..MaxWireHeight }

InitWire ==
  /\ imageData \in WireBuffers
  /\ ret = NoCall
  /\ ViewerAbsent
  /\ AppInitial

\* the effect samples its grid from imageData and a frame strokes the
\* vertical pass
CallDraw ==
  /\ ret = NoCall
  /\ ret' = [fn |-> "draw", points |-> GridPoints(imageData),
             strokes |-> VerticalPass(GridPoints(imageData))]
  /\ UNCHANGED <<imageData, viewerVars, appVars>>

SpecWire == InitWire /\ [][CallDraw]_vars

Segments == (0..gridSize) \X (0..(gridSize - 1))

\* the higher of the two endpoint heights of segment s, times 765
HigherZ765(s) ==
  Max(ret.points[s[2]][s[1]].z765, ret.points[s[2] + 1][s[1]].z765)

\* thicker exactly when the higher height exceeds 0.5, the dim tint whenever
\* it is below 0.1
WidthAndTintAsStated ==
  ret # NoCall =>
    \A s \in Segments :
      /\ (ret.strokes[s].lineWidth = 2) <=> (2 * HigherZ765(s) > 765)
      /\ ret.strokes[s].lineWidth \in {1, 2}
      /\ (10 * HigherZ765(s) < 765) => ret.strokes[s].strokeStyle = NoiseTint

\* C21: every vertical segment between grid points (x,y) and (x,y+1) is
\* stroked in the colour mapped from the higher of its two endpoint heights,
\* is thicker exactly when that height exceeds 0.5, and has the dim neutral
\* tint when that height is below 0.1.
C21_VerticalStrokes ==
  /\ WidthAndTintAsStated
  /\ ret # NoCall =>
       \A s \in Segments :
         (10 * HigherZ765(s) >= 765) =>
           ret.strokes[s].strokeStyle = getColor(HigherZ765(s))

\* what the code does for the colour: the colour of the endpoint (x, y+1)
ColourOfSecondEndpoint ==
  ret # NoCall =>
    \A s \in Segments :
      (10 * HigherZ765(s) >= 765) =>
        ret.strokes[s].strokeStyle = getColor(ret.points[s[2] + 1][s[1]].z765)

(***************************************************************************)
(* Claims about the viewer's projection state                              *)
(***************************************************************************)
\* C22: while a viewer exists its azimuth, elevation and zoom change only as
\* follows: a frame adds the fixed increment to the azimuth iff no drag is in
\* progress (a frame during a drag changes none of the three); a pointer-move
\* changes azimuth and elevation only during a drag, which a pointer-down
\* starts and a pointer-up/leave ends (a pointer-move outside a drag changes
\* nothing); only a wheel event changes the zoom.
C22_ProjectionChanges ==
  [][(mounted /\ mounted') =>
       LET frame == nextHandle' # nextHandle /\ effect' = effect
       IN /\ frame =>
               /\ scaleRef' = scaleRef
               /\ angleRef'.x = angleRef.x
               /\ angleRef'.z = IF isDragging THEN angleRef.z ELSE angleRef.z + 3
          /\ animate => frame
          /\ (~frame /\ angleRef' # angleRef) =>
               /\ isDragging /\ isDragging'
               /\ \E cx \in MouseXs, cy \in MouseYs : MouseMoveEvent(cx, cy)
               /\ scaleRef' = scaleRef
          /\ (\E cx \in MouseXs, cy \in MouseYs : MouseMoveEvent(cx, cy) /\ ~isDragging) =>
               UNCHANGED vars
          /\ (isDragging' /\ ~isDragging) => handleMouseDown
          /\ (~isDragging' /\ isDragging) => handleMouseUp
          /\ (scaleRef' # scaleRef) => (handleWheel /\ angleRef' = angleRef)]_vars

\* during a drag that has tilted the surface, after a wheel step, the loop
\* has drawn a frame
C22_Witness ==
  /\ mounted /\ isDragging
  /\ angleRef.x # [p |-> 0, o |-> 80]
  /\ angleRef.z # 500
  /\ scaleRef # 12
  /\ effect # 0 /\ lastDraw.effect = effect

(***************************************************************************)
(* Claims about overlapping uploads and analyses                           *)
(***************************************************************************)
\* the error processLocalImage sets for the image of file
ValidationErrorOf(file) ==
  LET st == estimateStats(ImageOf(file))
  IN IF st.peakIntensity < 20 THEN "signal"
     ELSE IF st.snr10 < 30 THEN "snr" ELSE "none"

\* C23: once every decode callback of two or more uploads has run, the
\* published stats, radial profile, crop, warning and error all derive from
\* the most recently selected file.
C23_LastUploadWins ==
  (uploads >= 2 /\ decodes = {}) =>
    /\ stats = StatsOf([u |-> uploads, file |-> imageFile])
    /\ radialProfile # Null => radialProfile = RadialProfileOf([u |-> uploads, file |-> imageFile])
    /\ croppedPSF # Null => (croppedPSF.u = uploads /\ croppedPSF.file = imageFile)
    /\ croppedImageData # Null =>
         (croppedImageData.u = uploads /\ croppedImageData.file = imageFile)
    /\ (radialProfile # Null) <=> (ValidationErrorOf(imageFile) = "none")
    /\ (croppedPSF # Null) <=> (ValidationErrorOf(imageFile) = "none")
    /\ warning = (IF IsSaturatedFile(imageFile) THEN "saturated" ELSE "none")
    /\ error # "analysis" => error = ValidationErrorOf(imageFile)

\* C24: the report shown was computed from the image of the latest upload,
\* and the completion of an analysis whose payload is the crop of an earlier
\* upload publishes neither its report nor its error.
C24_ReportOfCurrentImage ==
  [][/\ report' # Null => report'.u = uploads'
     /\ \A a \in analyses :
          (analyses' = analyses \ {a} /\ a.payload.u # uploads) =>
            UNCHANGED <<report, error>>]_vars

\* C25: at most one analysis call is in flight at any time, and isProcessing
\* is true exactly while one is; a run starts only when a crop exists, no
\* error is set and isProcessing is false; every started analysis eventually
\* resets isProcessing to false, and its completion either appends exactly
\* one report to the history (success, error untouched) or sets an error
\* (failure, history untouched).
C25_OneAnalysisAtATime ==
  /\ [](Cardinality(analyses) <= 1 /\ (isProcessing <=> analyses # {}))
  /\ [][/\ (analyses' \ analyses # {}) =>
             (croppedPSF # Null /\ error = "none" /\ ~isProcessing /\ analyses = {}
                /\ analyses' = {[payload |-> croppedPSF]} /\ isProcessing')
        /\ \A a \in analyses :
             (analyses' = analyses \ {a}) =>
               /\ ~isProcessing'
               /\ \/ /\ Len(history') = Len(history) + 1
                     /\ history' = Append(history, report')
                     /\ report'.payload = a.payload
                     /\ error' = error
                  \/ /\ history' = history
                     /\ report' = report
                     /\ error' = "analysis"]_vars
  /\ (isProcessing ~> ~isProcessing)

\* one analysis has succeeded, a second one has thrown, none is in flight
C25_Witness ==
  /\ Len(history) = 1
  /\ error = "analysis"
  /\ ~isProcessing /\ analyses = {}

====
